---- MODULE Spec2Model ----
(***************************************************************************)
(* Model of the in-memory book catalogue served over HTTP (src/main.go).   *)
(*                                                                         *)
(* Strings that the program slices or uses as map keys (paths, ids,        *)
(* titles) are sequences of string pieces, so that "" is <<>> and          *)
(* r.URL.Path[len("/book/"):] is a real SubSeq.  The JSON array written by *)
(* GET /books is kept as a bag of objects: Go's map iteration order is     *)
(* unspecified and the model does not fix one.                             *)
(***************************************************************************)
EXTENDS Integers, Sequences, FiniteSets, Bags, TLC

VARIABLES
    books,      \* the package-level map[string]Book
    mux,        \* the package-level sync.RWMutex: [w, writer, readers]
    req,        \* one record per request goroutine slot (seen: the write of
                \* lastWrite that its map access read or replaced; snap: the
                \* store at the instant its range over the map ran)
    mainPc,     \* position of the main goroutine
    seeded,     \* number of assignments of initializeBooks already executed
    lsn,        \* state of the listener goroutine started by main
    quit,       \* number of signals buffered in the quit channel (capacity 1)
    elapsed,    \* time units elapsed since the shutdown context was created
    exit,       \* "running", "exit0" (main returned) or "exit1" (log.Fatalf)
    lastWrite   \* history: for every key, the last committed write to it

vars == <<books, mux, req, mainPc, seeded, lsn, quit, elapsed, exit, lastWrite>>

-----------------------------------------------------------------------------
(* Bounds of the model *)

\* number of request goroutines that may be in flight together
NumProcs == 2

Procs == 1..NumProcs

-----------------------------------------------------------------------------
(* Program constants *)

\* context.WithTimeout(context.Background(), 5*time.Second)
GraceSeconds == 5

SecretKey == "secret-key"

BooksPattern == <<"/", "b", "o", "o", "k", "s">>

BookPrefix == <<"/", "b", "o", "o", "k", "/">>

\* type Book struct { ID string; Title string }
Book(i, t) == [ID |-> i, Title |-> t]

\* var book Book: the zero value
ZeroBook == Book(<<>>, <<>>)

\* the five assignments of initializeBooks, in program order
SeedBooks ==
    << Book(<<"1">>, <<"1984">>),
       Book(<<"2">>, <<"Brave New World">>),
       Book(<<"3">>, <<"To Kill a Mockingbird">>),
       Book(<<"4">>, <<"The Great Gatsby">>),
       Book(<<"5">>, <<"Moby Dick">>) >>

-----------------------------------------------------------------------------
(* Go map operations *)

\* m[k] = v
MapAssign(m, k, v) == [x \in (DOMAIN m) \cup {k} |-> IF x = k THEN v ELSE m[x]]

\* delete(m, k): a no-op when k is absent
MapDelete(m, k) == [x \in (DOMAIN m) \ {k} |-> m[x]]

\* v, ok := m[k]: the zero value when k is absent
MapLookup(m, k) == IF k \in DOMAIN m THEN m[k] ELSE ZeroBook

\* var bks []Book: the nil slice
NilSlice == [nil |-> TRUE, items |-> EmptyBag]

\* make([]Book, 0, n): an empty slice that is not nil
MakeSlice == [nil |-> FALSE, items |-> EmptyBag]

\* append(s, bs...): appending nothing leaves s as it is, nil included
AppendBooks(s, bs) == IF bs = EmptyBag THEN s ELSE [nil |-> FALSE, items |-> s.items (+) bs]

\* the values that for _, book := range books visits, order dropped
RECURSIVE RangeValues(_, _)
RangeValues(m, ks) ==
    IF ks = {} THEN EmptyBag
    ELSE LET k == CHOOSE x \in ks : TRUE
         IN  RangeValues(m, ks \ {k}) (+) SetToBag({m[k]})

-----------------------------------------------------------------------------
(* HTTP and JSON helpers *)

\* r.Header.Get(name): "" when the header is absent
HeaderGet(h, name) == IF name \in DOMAIN h THEN h[name] ELSE ""

\* p is a prefix of s
HasPrefix(s, p) == Len(s) >= Len(p) /\ SubSeq(s, 1, Len(p)) = p

\* http.DefaultServeMux with the two patterns main registers
Route(path) ==
    IF path = BooksPattern THEN "handleBooks"
    ELSE IF HasPrefix(path, BookPrefix) THEN "handleBook"
    ELSE "notfound"

\* r.URL.Path[len("/book/"):]
PathId(path) == SubSeq(path, Len(BookPrefix) + 1, Len(path))

JString(s) == [t |-> "string", s |-> s]

JNumber == [t |-> "number", s |-> <<>>]

JObject(f) == [kind |-> "object", fields |-> f]

\* a field of a decoded object: absent fields keep the zero value
FieldOr(f, name) == IF name \in DOMAIN f THEN f[name].s ELSE <<>>

\* json.NewDecoder(r.Body).Decode(&book) returns a non-nil error
DecodeFails(body) ==
    \/ body.kind # "object"
    \/ \E n \in DOMAIN body.fields : body.fields[n].t # "string"

\* the Book that Decode leaves in &book when it succeeds
DecodeBook(body) == Book(FieldOr(body.fields, "id"), FieldOr(body.fields, "title"))

\* the text of the decode error
DecodeError(body) ==
    IF body.kind = "empty" THEN "EOF"
    ELSE IF body.kind = "syntax" THEN "invalid character"
    ELSE "cannot unmarshal number into Go struct field"

\* json.NewEncoder(w).Encode(book)
EncodeBook(b) == JObject([n \in {"id", "title"} |-> IF n = "id" THEN JString(b.ID) ELSE JString(b.Title)])

\* json.NewEncoder(w).Encode(bks): a JSON array, and null for the nil slice
RECURSIVE EncodeBag(_, _)
EncodeBag(bag, es) ==
    IF es = {} THEN EmptyBag
    ELSE LET e == CHOOSE x \in es : TRUE
         IN  EncodeBag(bag, es \ {e}) (+) [x \in {EncodeBook(e)} |-> bag[e]]

EncodeBooks(bks) ==
    IF bks.nil THEN [kind |-> "null"]
    ELSE [kind |-> "array", items |-> EncodeBag(bks.items, DOMAIN bks.items)]

NoResp == [kind |-> "none"]

TextResp(t) == [kind |-> "text", text |-> t]

-----------------------------------------------------------------------------
(* Request inputs *)

NoHeader == [n \in {} |-> ""]

ApiKey(k) == [n \in {"X-API-Key"} |-> k]

Headers == {NoHeader, ApiKey(SecretKey), ApiKey("wrong-key")}

Methods == {"GET", "POST", "PUT", "DELETE", "PATCH"}

PathIds == {<<>>, <<"1">>, <<"6">>}

Paths == {BooksPattern} \cup {BookPrefix \o i : i \in PathIds}

EmptyBody == [kind |-> "empty"]

SyntaxBody == [kind |-> "syntax"]

\* {"id": 6, "title": "Dune"}
NumberBody == JObject([n \in {"id", "title"} |-> IF n = "id" THEN JNumber ELSE JString(<<"Dune">>)])

\* {"id": "6", "title": "Dune"}
DuneBody == JObject([n \in {"id", "title"} |-> IF n = "id" THEN JString(<<"6">>) ELSE JString(<<"Dune">>)])

\* {"id": "1", "title": "Animal Farm"}
FarmBody == JObject([n \in {"id", "title"} |-> IF n = "id" THEN JString(<<"1">>) ELSE JString(<<"Animal Farm">>)])

\* {"title": "Emma"}: no id field
EmmaBody == JObject([n \in {"title"} |-> JString(<<"Emma">>)])

GoodBodies == {DuneBody, FarmBody, EmmaBody}

BadBodies == {EmptyBody, SyntaxBody, NumberBody}

\* a body is sent with POST and PUT only
Inputs ==
    {in \in [method : Methods, path : Paths, header : Headers, body : GoodBodies \cup BadBodies] :
        in.method \notin {"POST", "PUT"} => in.body = EmptyBody}

In(m, path, h, b) == [method |-> m, path |-> path, header |-> h, body |-> b]

\* authenticated readers and writers of /book/6 and posts with two ids
ServeInputs ==
    {In("GET", BookPrefix \o <<"6">>, ApiKey(SecretKey), EmptyBody),
     In("DELETE", BookPrefix \o <<"6">>, ApiKey(SecretKey), EmptyBody),
     In("PUT", BookPrefix \o <<"6">>, ApiKey(SecretKey), EmmaBody),
     In("POST", BooksPattern, ApiKey(SecretKey), DuneBody),
     In("POST", BooksPattern, ApiKey(SecretKey), EmmaBody)}

\* the requests in flight around a shutdown
LifeInputs ==
    {In("POST", BooksPattern, ApiKey(SecretKey), DuneBody),
     In("GET", BookPrefix \o <<"6">>, ApiKey(SecretKey), EmptyBody),
     In("DELETE", BookPrefix \o <<"6">>, NoHeader, EmptyBody)}

\* authenticated requests of the five kinds that take the lock, on the
\* collection and on /book/6; the PUT carries a body whose id is "1"
MixInputs ==
    {In("GET", BooksPattern, ApiKey(SecretKey), EmptyBody),
     In("POST", BooksPattern, ApiKey(SecretKey), DuneBody),
     In("GET", BookPrefix \o <<"6">>, ApiKey(SecretKey), EmptyBody),
     In("PUT", BookPrefix \o <<"6">>, ApiKey(SecretKey), FarmBody),
     In("DELETE", BookPrefix \o <<"6">>, ApiKey(SecretKey), EmptyBody)}

\* the requests of slot p where every request must come to its end: all of
\* MixInputs in slot 1, a reader and a writer in every other slot
FairInputs(p) ==
    IF p = 1 THEN MixInputs
    ELSE {In("GET", BooksPattern, ApiKey(SecretKey), EmptyBody),
          In("DELETE", BookPrefix \o <<"6">>, ApiKey(SecretKey), EmptyBody)}

\* the requests that empty the store and list it, in slot 1, while the
\* other slots post a book
ListInputs(p) ==
    IF p = 1
    THEN {In("GET", BooksPattern, ApiKey(SecretKey), EmptyBody)}
            \cup {In("DELETE", BookPrefix \o SeedBooks[i].ID, ApiKey(SecretKey), EmptyBody) :
                    i \in 1..Len(SeedBooks)}
    ELSE {In("POST", BooksPattern, ApiKey(SecretKey), DuneBody)}

\* every key a request or the seeding can touch
Keys == {SeedBooks[i].ID : i \in 1..Len(SeedBooks)} \cup PathIds \cup {DecodeBook(b).ID : b \in GoodBodies}

-----------------------------------------------------------------------------
(* State *)

NoWrite == [op |-> "none", val |-> ZeroBook]

IdleReq ==
    [pc |-> "idle", method |-> "", path |-> <<>>, header |-> NoHeader, body |-> EmptyBody,
     id |-> <<>>, book |-> ZeroBook, ok |-> FALSE, bks |-> NilSlice,
     status |-> 0, resp |-> NoResp, seen |-> NoWrite, snap |-> [k \in {} |-> ZeroBook]]

\* w.WriteHeader / http.Error / Encode: the response of slot p
Respond(p, code, body) == [req EXCEPT ![p].pc = "done", ![p].status = code, ![p].resp = body]

Running == exit = "running"

procVars == <<mainPc, seeded, lsn, quit, elapsed, exit>>

MapWritePcs == {"booksPostStore", "bookPutStore", "bookDeleteRemove"}

MapReadPcs == {"booksGetRange", "bookGetLookup"}

\* another goroutine is inside a map access while p writes the map
RaceOnWrite(p) == \E q \in Procs \ {p} : req[q].pc \in MapWritePcs \cup MapReadPcs

\* another goroutine is inside a map write while p reads the map
RaceOnRead(p) == \E q \in Procs \ {p} : req[q].pc \in MapWritePcs

\* a write of the unsynchronised Go map by p that would make it new: when it
\* races, the update may be lost or the runtime may abort the process
\* ("fatal error: concurrent map writes")
MapWrite(p, new) ==
    /\ books' \in (IF RaceOnWrite(p) THEN {new, books} ELSE {new})
    /\ exit' \in (IF RaceOnWrite(p) THEN {exit, "exit2"} ELSE {exit})
    /\ UNCHANGED <<mainPc, seeded, lsn, quit, elapsed>>

\* a read of the Go map by p: when it races it may miss the entries or the
\* runtime may abort the process; yields the map p observes
MapRead(p) == IF RaceOnRead(p) THEN {books, [k \in {} |-> ZeroBook]} ELSE {books}

MapReadExit(p) ==
    /\ exit' \in (IF RaceOnRead(p) THEN {exit, "exit2"} ELSE {exit})
    /\ UNCHANGED <<mainPc, seeded, lsn, quit, elapsed>>

Init ==
    /\ books = [k \in {} |-> ZeroBook]
    /\ mux = [w |-> 0, writer |-> 0, readers |-> {}]
    /\ req = [p \in Procs |-> IdleReq]
    /\ mainPc = "initializeBooks"
    /\ seeded = 0
    /\ lsn = "none"
    /\ quit = 0
    /\ elapsed = 0
    /\ exit = "running"
    /\ lastWrite = [k \in Keys |-> NoWrite]

-----------------------------------------------------------------------------
(* The request goroutines *)

\* the server accepts a request and routes it to authenticate(handler)
Accept(p, in) ==
    /\ Running /\ lsn = "listening"
    /\ req[p].pc = "idle"
    /\ Route(in.path) # "notfound"
    /\ req' = [req EXCEPT ![p] = [IdleReq EXCEPT !.pc = "authenticate", !.method = in.method,
                                     !.path = in.path, !.header = in.header, !.body = in.body]]
    /\ UNCHANGED <<books, mux, lastWrite, procVars>>

\* authenticate without the return after http.Error: the handler still runs
AuthenticateNoReturn(p) ==
    /\ Running
    /\ req[p].pc = "authenticate"
    /\ IF HeaderGet(req[p].header, "X-API-Key") # SecretKey
       THEN req' = [req EXCEPT ![p].pc = Route(req[p].path), ![p].status = 401,
                               ![p].resp = TextResp("Unauthorized")]
       ELSE req' = [req EXCEPT ![p].pc = Route(req[p].path)]
    /\ UNCHANGED <<books, mux, lastWrite, procVars>>

\* the closure returned by authenticate
Authenticate(p) ==
    /\ Running
    /\ req[p].pc = "authenticate"
    /\ IF HeaderGet(req[p].header, "X-API-Key") # SecretKey
       THEN req' = Respond(p, 401, TextResp("Unauthorized"))
       ELSE req' = [req EXCEPT ![p].pc = Route(req[p].path)]
    /\ UNCHANGED <<books, mux, lastWrite, procVars>>

\* handleBooks, case "GET": mux.RLock()
BooksGetRLock(p) ==
    /\ Running
    /\ req[p].pc = "handleBooks" /\ req[p].method = "GET"
    /\ mux.w = 0
    /\ mux' = [mux EXCEPT !.readers = @ \cup {p}]
    /\ req' = [req EXCEPT ![p].pc = "booksGetRange"]
    /\ UNCHANGED <<books, lastWrite, procVars>>

\* handleBooks, case "GET", with make([]Book, len(books)): the appended books
\* follow len(books) zero Books
BooksGetRangeLen(p) ==
    /\ Running
    /\ req[p].pc = "booksGetRange"
    /\ \E m \in MapRead(p) :
          req' = [req EXCEPT ![p].pc = "booksGetRUnlock",
                                ![p].bks = AppendBooks([nil |-> FALSE,
                                                   items |-> IF DOMAIN m = {} THEN EmptyBag
                                                             ELSE [b \in {ZeroBook} |->
                                                                      Cardinality(DOMAIN m)]],
                                                  RangeValues(m, DOMAIN m)),
                                ![p].snap = books]
    /\ MapReadExit(p)
    /\ UNCHANGED <<books, mux, lastWrite>>

\* handleBooks, case "GET", with var bks []Book instead of make: nothing is
\* appended to the nil slice when the map is empty
BooksGetRangeVar(p) ==
    /\ Running
    /\ req[p].pc = "booksGetRange"
    /\ \E m \in MapRead(p) :
          req' = [req EXCEPT ![p].pc = "booksGetRUnlock",
                                ![p].bks = AppendBooks(NilSlice, RangeValues(m, DOMAIN m)),
                                ![p].snap = books]
    /\ MapReadExit(p)
    /\ UNCHANGED <<books, mux, lastWrite>>

\* handleBooks, case "GET": make([]Book, 0, len(books)) and the loop that
\* appends the values to bks
BooksGetRange(p) ==
    /\ Running
    /\ req[p].pc = "booksGetRange"
    /\ \E m \in MapRead(p) :
          req' = [req EXCEPT ![p].pc = "booksGetRUnlock",
                                ![p].bks = AppendBooks(MakeSlice, RangeValues(m, DOMAIN m)),
                                ![p].snap = books]
    /\ MapReadExit(p)
    /\ UNCHANGED <<books, mux, lastWrite>>

\* handleBooks, case "GET", with defer mux.RUnlock(): the read lock is still
\* held when the response is encoded
BooksGetRUnlockDeferred(p) ==
    /\ Running
    /\ req[p].pc = "booksGetRUnlock"
    /\ req' = [req EXCEPT ![p].pc = "booksGetEncode"]
    /\ UNCHANGED <<books, mux, lastWrite, procVars>>

\* handleBooks, case "GET": mux.RUnlock()
BooksGetRUnlock(p) ==
    /\ Running
    /\ req[p].pc = "booksGetRUnlock"
    /\ mux' = [mux EXCEPT !.readers = @ \ {p}]
    /\ req' = [req EXCEPT ![p].pc = "booksGetEncode"]
    /\ UNCHANGED <<books, lastWrite, procVars>>

\* handleBooks, case "GET": json.NewEncoder(w).Encode(bks)
BooksGetEncode(p) ==
    /\ Running
    /\ req[p].pc = "booksGetEncode"
    /\ req' = Respond(p, 200, EncodeBooks(req[p].bks))
    /\ UNCHANGED <<books, mux, lastWrite, procVars>>

\* handleBooks, case "POST", refusing a record without an id:
\* if book.ID == "" { http.Error(w, "missing id", 400); return }
BooksPostDecodeRequireId(p) ==
    /\ Running
    /\ req[p].pc = "handleBooks" /\ req[p].method = "POST"
    /\ IF DecodeFails(req[p].body)
       THEN req' = Respond(p, 400, TextResp(DecodeError(req[p].body)))
       ELSE IF DecodeBook(req[p].body).ID = <<>>
       THEN req' = Respond(p, 400, TextResp("missing id"))
       ELSE req' = [req EXCEPT ![p].pc = "booksPostLock", ![p].book = DecodeBook(req[p].body)]
    /\ UNCHANGED <<books, mux, lastWrite, procVars>>

\* handleBooks, case "POST": decode the body, 400 on error
BooksPostDecode(p) ==
    /\ Running
    /\ req[p].pc = "handleBooks" /\ req[p].method = "POST"
    /\ IF DecodeFails(req[p].body)
       THEN req' = Respond(p, 400, TextResp(DecodeError(req[p].body)))
       ELSE req' = [req EXCEPT ![p].pc = "booksPostLock", ![p].book = DecodeBook(req[p].body)]
    /\ UNCHANGED <<books, mux, lastWrite, procVars>>

\* handleBooks, case "POST", with a lock that excludes nobody
BooksPostLockNoWait(p) ==
    /\ Running
    /\ req[p].pc = "booksPostLock"
    /\ mux' = [mux EXCEPT !.w = p]
    /\ req' = [req EXCEPT ![p].pc = "booksPostLockWait"]
    /\ UNCHANGED <<books, lastWrite, procVars>>

\* handleBooks, case "POST": mux.Lock() takes the writers' mutex rw.w and
\* announces the writer, which holds back the readers that come after it
BooksPostLock(p) ==
    /\ Running
    /\ req[p].pc = "booksPostLock"
    /\ mux.w = 0
    /\ mux' = [mux EXCEPT !.w = p]
    /\ req' = [req EXCEPT ![p].pc = "booksPostLockWait"]
    /\ UNCHANGED <<books, lastWrite, procVars>>

\* handleBooks, case "POST": mux.Lock() waits for the readers to leave
BooksPostLockWait(p) ==
    /\ Running
    /\ req[p].pc = "booksPostLockWait"
    /\ mux.readers = {}
    /\ mux' = [mux EXCEPT !.writer = p]
    /\ req' = [req EXCEPT ![p].pc = "booksPostStore"]
    /\ UNCHANGED <<books, lastWrite, procVars>>

\* handleBooks, case "POST", adding the book only when its id is new
BooksPostStoreIfAbsent(p) ==
    /\ Running
    /\ req[p].pc = "booksPostStore"
    /\ MapWrite(p, IF req[p].book.ID \in DOMAIN books THEN books
                   ELSE MapAssign(books, req[p].book.ID, req[p].book))
    /\ lastWrite' = [lastWrite EXCEPT ![req[p].book.ID] = [op |-> "POST", val |-> req[p].book]]
    /\ req' = [req EXCEPT ![p].pc = "booksPostUnlock", ![p].seen = lastWrite[req[p].book.ID]]
    /\ UNCHANGED mux

\* handleBooks, case "POST": books[book.ID] = book
BooksPostStore(p) ==
    /\ Running
    /\ req[p].pc = "booksPostStore"
    /\ MapWrite(p, MapAssign(books, req[p].book.ID, req[p].book))
    /\ lastWrite' = [lastWrite EXCEPT ![req[p].book.ID] = [op |-> "POST", val |-> req[p].book]]
    /\ req' = [req EXCEPT ![p].pc = "booksPostUnlock", ![p].seen = lastWrite[req[p].book.ID]]
    /\ UNCHANGED mux

\* handleBooks, case "POST": mux.Unlock()
BooksPostUnlock(p) ==
    /\ Running
    /\ req[p].pc = "booksPostUnlock"
    /\ mux' = [mux EXCEPT !.writer = 0, !.w = 0]
    /\ req' = [req EXCEPT ![p].pc = "booksPostCreated"]
    /\ UNCHANGED <<books, lastWrite, procVars>>

\* handleBooks, case "POST": w.WriteHeader(http.StatusCreated)
BooksPostCreated(p) ==
    /\ Running
    /\ req[p].pc = "booksPostCreated"
    /\ req' = Respond(p, 201, NoResp)
    /\ UNCHANGED <<books, mux, lastWrite, procVars>>

\* handleBooks, default, answering with http.StatusNotFound
BooksDefaultNotFound(p) ==
    /\ Running
    /\ req[p].pc = "handleBooks" /\ req[p].method \notin {"GET", "POST"}
    /\ req' = Respond(p, 404, NoResp)
    /\ UNCHANGED <<books, mux, lastWrite, procVars>>

\* handleBooks, default: w.WriteHeader(http.StatusMethodNotAllowed)
BooksDefault(p) ==
    /\ Running
    /\ req[p].pc = "handleBooks" /\ req[p].method \notin {"GET", "POST"}
    /\ req' = Respond(p, 405, NoResp)
    /\ UNCHANGED <<books, mux, lastWrite, procVars>>

\* handleBook, case "GET", with an RLock() that does not wait for the writer
BookGetRLockNoWait(p) ==
    /\ Running
    /\ req[p].pc = "handleBook" /\ req[p].method = "GET"
    /\ mux' = [mux EXCEPT !.readers = @ \cup {p}]
    /\ req' = [req EXCEPT ![p].pc = "bookGetLookup", ![p].id = PathId(req[p].path)]
    /\ UNCHANGED <<books, lastWrite, procVars>>

\* handleBook, case "GET": id from the path, then mux.RLock()
BookGetRLock(p) ==
    /\ Running
    /\ req[p].pc = "handleBook" /\ req[p].method = "GET"
    /\ mux.w = 0
    /\ mux' = [mux EXCEPT !.readers = @ \cup {p}]
    /\ req' = [req EXCEPT ![p].pc = "bookGetLookup", ![p].id = PathId(req[p].path)]
    /\ UNCHANGED <<books, lastWrite, procVars>>

\* handleBook, case "GET", with a lookup that creates the entry it misses
BookGetLookupInsert(p) ==
    /\ Running
    /\ req[p].pc = "bookGetLookup"
    /\ \E m \in MapRead(p) :
          req' = [req EXCEPT ![p].pc = "bookGetRUnlock",
                                ![p].book = MapLookup(m, req[p].id),
                                ![p].ok = req[p].id \in DOMAIN m,
                                ![p].seen = lastWrite[req[p].id]]
    /\ books' = IF req[p].id \in DOMAIN books THEN books
                ELSE MapAssign(books, req[p].id, ZeroBook)
    /\ MapReadExit(p)
    /\ UNCHANGED <<mux, lastWrite>>

\* handleBook, case "GET": book, ok := books[id]
BookGetLookup(p) ==
    /\ Running
    /\ req[p].pc = "bookGetLookup"
    /\ \E m \in MapRead(p) :
          req' = [req EXCEPT ![p].pc = "bookGetRUnlock",
                                ![p].book = MapLookup(m, req[p].id),
                                ![p].ok = req[p].id \in DOMAIN m,
                                ![p].seen = lastWrite[req[p].id]]
    /\ MapReadExit(p)
    /\ UNCHANGED <<books, mux, lastWrite>>

\* handleBook, case "GET": mux.RUnlock()
BookGetRUnlock(p) ==
    /\ Running
    /\ req[p].pc = "bookGetRUnlock"
    /\ mux' = [mux EXCEPT !.readers = @ \ {p}]
    /\ req' = [req EXCEPT ![p].pc = "bookGetReply"]
    /\ UNCHANGED <<books, lastWrite, procVars>>

\* handleBook, case "GET": http.NotFound when !ok, else Encode(book)
BookGetReply(p) ==
    /\ Running
    /\ req[p].pc = "bookGetReply"
    /\ IF ~req[p].ok
       THEN req' = Respond(p, 404, TextResp("404 page not found"))
       ELSE req' = Respond(p, 200, EncodeBook(req[p].book))
    /\ UNCHANGED <<books, mux, lastWrite, procVars>>

\* handleBook, case "PUT", without the return after the 400: the zero Book is stored
BookPutDecodeNoReturn(p) ==
    /\ Running
    /\ req[p].pc = "handleBook" /\ req[p].method = "PUT"
    /\ IF DecodeFails(req[p].body)
       THEN req' = [req EXCEPT ![p].pc = "bookPutLock", ![p].id = PathId(req[p].path),
                               ![p].status = 400,
                               ![p].resp = TextResp(DecodeError(req[p].body))]
       ELSE req' = [req EXCEPT ![p].pc = "bookPutLock", ![p].id = PathId(req[p].path),
                               ![p].book = DecodeBook(req[p].body)]
    /\ UNCHANGED <<books, mux, lastWrite, procVars>>

\* handleBook, case "PUT": id from the path, decode the body, 400 on error
BookPutDecode(p) ==
    /\ Running
    /\ req[p].pc = "handleBook" /\ req[p].method = "PUT"
    /\ IF DecodeFails(req[p].body)
       THEN req' = [Respond(p, 400, TextResp(DecodeError(req[p].body))) EXCEPT ![p].id = PathId(req[p].path)]
       ELSE req' = [req EXCEPT ![p].pc = "bookPutLock", ![p].id = PathId(req[p].path),
                               ![p].book = DecodeBook(req[p].body)]
    /\ UNCHANGED <<books, mux, lastWrite, procVars>>

\* handleBook, case "PUT": mux.Lock()
BookPutLock(p) ==
    /\ Running
    /\ req[p].pc = "bookPutLock"
    /\ mux.w = 0
    /\ mux' = [mux EXCEPT !.w = p]
    /\ req' = [req EXCEPT ![p].pc = "bookPutLockWait"]
    /\ UNCHANGED <<books, lastWrite, procVars>>

\* handleBook, case "PUT", with a Lock() that does not wait for the readers
BookPutLockWaitNoDrain(p) ==
    /\ Running
    /\ req[p].pc = "bookPutLockWait"
    /\ mux' = [mux EXCEPT !.writer = p]
    /\ req' = [req EXCEPT ![p].pc = "bookPutStore"]
    /\ UNCHANGED <<books, lastWrite, procVars>>

\* handleBook, case "PUT": mux.Lock() waits for the readers to leave
BookPutLockWait(p) ==
    /\ Running
    /\ req[p].pc = "bookPutLockWait"
    /\ mux.readers = {}
    /\ mux' = [mux EXCEPT !.writer = p]
    /\ req' = [req EXCEPT ![p].pc = "bookPutStore"]
    /\ UNCHANGED <<books, lastWrite, procVars>>

\* handleBook, case "PUT", updating the book only when the id exists
BookPutStoreIfPresent(p) ==
    /\ Running
    /\ req[p].pc = "bookPutStore"
    /\ MapWrite(p, IF req[p].id \in DOMAIN books THEN MapAssign(books, req[p].id, req[p].book)
                   ELSE books)
    /\ lastWrite' = [lastWrite EXCEPT ![req[p].id] = [op |-> "PUT", val |-> req[p].book]]
    /\ req' = [req EXCEPT ![p].pc = "bookPutUnlock", ![p].seen = lastWrite[req[p].id]]
    /\ UNCHANGED mux

\* handleBook, case "PUT", storing under the body's id: books[book.ID] = book
BookPutStoreBodyId(p) ==
    /\ Running
    /\ req[p].pc = "bookPutStore"
    /\ MapWrite(p, MapAssign(books, req[p].book.ID, req[p].book))
    /\ lastWrite' = [lastWrite EXCEPT ![req[p].id] = [op |-> "PUT", val |-> req[p].book]]
    /\ req' = [req EXCEPT ![p].pc = "bookPutUnlock", ![p].seen = lastWrite[req[p].id]]
    /\ UNCHANGED mux

\* handleBook, case "PUT", making the record carry the path id:
\* book.ID = id; books[id] = book
BookPutStoreSameId(p) ==
    /\ Running
    /\ req[p].pc = "bookPutStore"
    /\ MapWrite(p, MapAssign(books, req[p].id, [req[p].book EXCEPT !.ID = req[p].id]))
    /\ lastWrite' = [lastWrite EXCEPT ![req[p].id] =
                        [op |-> "PUT", val |-> [req[p].book EXCEPT !.ID = req[p].id]]]
    /\ req' = [req EXCEPT ![p].pc = "bookPutUnlock", ![p].seen = lastWrite[req[p].id]]
    /\ UNCHANGED mux

\* handleBook, case "PUT": books[id] = book
BookPutStore(p) ==
    /\ Running
    /\ req[p].pc = "bookPutStore"
    /\ MapWrite(p, MapAssign(books, req[p].id, req[p].book))
    /\ lastWrite' = [lastWrite EXCEPT ![req[p].id] = [op |-> "PUT", val |-> req[p].book]]
    /\ req' = [req EXCEPT ![p].pc = "bookPutUnlock", ![p].seen = lastWrite[req[p].id]]
    /\ UNCHANGED mux

\* handleBook, case "PUT": mux.Unlock()
BookPutUnlock(p) ==
    /\ Running
    /\ req[p].pc = "bookPutUnlock"
    /\ mux' = [mux EXCEPT !.writer = 0, !.w = 0]
    /\ req' = [req EXCEPT ![p].pc = "bookPutEncode"]
    /\ UNCHANGED <<books, lastWrite, procVars>>

\* handleBook, case "PUT": json.NewEncoder(w).Encode(book)
BookPutEncode(p) ==
    /\ Running
    /\ req[p].pc = "bookPutEncode"
    /\ req' = Respond(p, 200, EncodeBook(req[p].book))
    /\ UNCHANGED <<books, mux, lastWrite, procVars>>

\* handleBook, case "DELETE": id from the path, then mux.Lock()
BookDeleteLock(p) ==
    /\ Running
    /\ req[p].pc = "handleBook" /\ req[p].method = "DELETE"
    /\ mux.w = 0
    /\ mux' = [mux EXCEPT !.w = p]
    /\ req' = [req EXCEPT ![p].pc = "bookDeleteLockWait", ![p].id = PathId(req[p].path)]
    /\ UNCHANGED <<books, lastWrite, procVars>>

\* handleBook, case "DELETE": mux.Lock() waits for the readers to leave
BookDeleteLockWait(p) ==
    /\ Running
    /\ req[p].pc = "bookDeleteLockWait"
    /\ mux.readers = {}
    /\ mux' = [mux EXCEPT !.writer = p]
    /\ req' = [req EXCEPT ![p].pc = "bookDeleteRemove"]
    /\ UNCHANGED <<books, lastWrite, procVars>>

\* handleBook, case "DELETE", deleting the wrong variable: delete(books, book.ID)
BookDeleteRemoveBookId(p) ==
    /\ Running
    /\ req[p].pc = "bookDeleteRemove"
    /\ MapWrite(p, MapDelete(books, req[p].book.ID))
    /\ lastWrite' = [lastWrite EXCEPT ![req[p].id] = [op |-> "DELETE", val |-> ZeroBook]]
    /\ req' = [req EXCEPT ![p].pc = "bookDeleteUnlock", ![p].seen = lastWrite[req[p].id]]
    /\ UNCHANGED mux

\* handleBook, case "DELETE": delete(books, id)
BookDeleteRemove(p) ==
    /\ Running
    /\ req[p].pc = "bookDeleteRemove"
    /\ MapWrite(p, MapDelete(books, req[p].id))
    /\ lastWrite' = [lastWrite EXCEPT ![req[p].id] = [op |-> "DELETE", val |-> ZeroBook]]
    /\ req' = [req EXCEPT ![p].pc = "bookDeleteUnlock", ![p].seen = lastWrite[req[p].id]]
    /\ UNCHANGED mux

\* handleBook, case "DELETE", without the mux.Unlock()
BookDeleteUnlockLeak(p) ==
    /\ Running
    /\ req[p].pc = "bookDeleteUnlock"
    /\ req' = [req EXCEPT ![p].pc = "bookDeleteNoContent"]
    /\ UNCHANGED <<books, mux, lastWrite, procVars>>

\* handleBook, case "DELETE": mux.Unlock()
BookDeleteUnlock(p) ==
    /\ Running
    /\ req[p].pc = "bookDeleteUnlock"
    /\ mux' = [mux EXCEPT !.writer = 0, !.w = 0]
    /\ req' = [req EXCEPT ![p].pc = "bookDeleteNoContent"]
    /\ UNCHANGED <<books, lastWrite, procVars>>

\* handleBook, case "DELETE": w.WriteHeader(http.StatusNoContent)
BookDeleteNoContent(p) ==
    /\ Running
    /\ req[p].pc = "bookDeleteNoContent"
    /\ req' = Respond(p, 204, NoResp)
    /\ UNCHANGED <<books, mux, lastWrite, procVars>>

\* handleBook, default: w.WriteHeader(http.StatusMethodNotAllowed)
BookDefault(p) ==
    /\ Running
    /\ req[p].pc = "handleBook" /\ req[p].method \notin {"GET", "PUT", "DELETE"}
    /\ req' = [Respond(p, 405, NoResp) EXCEPT ![p].id = PathId(req[p].path)]
    /\ UNCHANGED <<books, mux, lastWrite, procVars>>

\* the response has been sent and the connection serves its next request
Finish(p) ==
    /\ Running
    /\ req[p].pc = "done"
    /\ req' = [req EXCEPT ![p] = IdleReq]
    /\ UNCHANGED <<books, mux, lastWrite, procVars>>

-----------------------------------------------------------------------------
(* The main goroutine, the listener and the signal *)

reqVars == <<books, mux, req, lastWrite>>

\* main with go initializeBooks(): main goes on to start the server while
\* the assignments of the seeding are still being executed
InitializeBooksAsync ==
    /\ Running
    /\ seeded < Len(SeedBooks)
    /\ LET b == SeedBooks[seeded + 1]
       IN  /\ books' = MapAssign(books, b.ID, b)
           /\ lastWrite' = [lastWrite EXCEPT ![b.ID] = [op |-> "seed", val |-> b]]
    /\ seeded' = seeded + 1
    /\ mainPc' = IF mainPc = "initializeBooks" THEN "serve" ELSE mainPc
    /\ UNCHANGED <<mux, req, lsn, quit, elapsed, exit>>

\* initializeBooks: the next of its five assignments, without the lock
InitializeBooks ==
    /\ Running
    /\ mainPc = "initializeBooks" /\ seeded < Len(SeedBooks)
    /\ LET b == SeedBooks[seeded + 1]
       IN  /\ books' = MapAssign(books, b.ID, b)
           /\ lastWrite' = [lastWrite EXCEPT ![b.ID] = [op |-> "seed", val |-> b]]
    /\ seeded' = seeded + 1
    /\ mainPc' = IF seeded' = Len(SeedBooks) THEN "serve" ELSE mainPc
    /\ UNCHANGED <<mux, req, lsn, quit, elapsed, exit>>

\* main: build the server, register the routes, start the listener goroutine
\* and register the quit channel with signal.Notify
StartServer ==
    /\ Running
    /\ mainPc = "serve"
    /\ mainPc' = "waitQuit"
    /\ lsn' = "starting"
    /\ UNCHANGED <<reqVars, seeded, quit, elapsed, exit>>

\* the goroutine: ListenAndServe binds the port and serves
ListenOk ==
    /\ Running
    /\ lsn = "starting"
    /\ lsn' = "listening"
    /\ UNCHANGED <<reqVars, mainPc, seeded, quit, elapsed, exit>>

\* the goroutine: ListenAndServe fails to bind, log.Fatalf ends the process
ListenFail ==
    /\ Running
    /\ lsn = "starting"
    /\ lsn' = "closed"
    /\ exit' = "exit1"
    /\ UNCHANGED <<reqVars, mainPc, seeded, quit, elapsed>>

\* SIGINT or SIGTERM is delivered to the registered channel of capacity 1;
\* a signal that finds the buffer full is dropped
Signal ==
    /\ Running
    /\ mainPc \in {"waitQuit", "shutdown", "shutdownWait"}
    /\ quit = 0
    /\ quit' = 1
    /\ UNCHANGED <<reqVars, mainPc, seeded, lsn, elapsed, exit>>

\* main: <-quit, then context.WithTimeout starts the grace period
ReceiveQuit ==
    /\ Running
    /\ mainPc = "waitQuit" /\ quit > 0
    /\ quit' = quit - 1
    /\ mainPc' = "shutdown"
    /\ elapsed' = 0
    /\ UNCHANGED <<reqVars, seeded, lsn, exit>>

\* a time unit of the grace period passes
Tick ==
    /\ Running
    /\ mainPc \in {"shutdown", "shutdownWait"}
    /\ elapsed < GraceSeconds
    /\ elapsed' = elapsed + 1
    /\ UNCHANGED <<reqVars, mainPc, seeded, lsn, quit, exit>>

\* a connection is busy while its request has no response yet
InFlight(p) == req[p].pc \notin {"idle", "done"}

\* main: server.Shutdown(ctx) closes the listener
ShutdownBegin ==
    /\ Running
    /\ mainPc = "shutdown"
    /\ mainPc' = "shutdownWait"
    /\ lsn' = "closed"
    /\ UNCHANGED <<reqVars, seeded, quit, elapsed, exit>>

\* server.Shutdown finds every connection idle and returns nil; main returns
ShutdownIdle ==
    /\ Running
    /\ mainPc = "shutdownWait"
    /\ \A p \in Procs : ~InFlight(p)
    /\ mainPc' = "returned"
    /\ exit' = "exit0"
    /\ UNCHANGED <<reqVars, seeded, lsn, quit, elapsed>>

\* server.Shutdown(context.Background()): no deadline ever arrives
ShutdownNoDeadline ==
    /\ Running
    /\ mainPc = "shutdownWait"
    /\ elapsed > GraceSeconds
    /\ \E p \in Procs : InFlight(p)
    /\ mainPc' = "fatal"
    /\ exit' = "exit1"
    /\ UNCHANGED <<reqVars, seeded, lsn, quit, elapsed>>

\* the context expires with a request in flight: Shutdown returns its error
\* and log.Fatalf ends the process
ShutdownTimeout ==
    /\ Running
    /\ mainPc = "shutdownWait"
    /\ elapsed = GraceSeconds
    /\ \E p \in Procs : InFlight(p)
    /\ mainPc' = "fatal"
    /\ exit' = "exit1"
    /\ UNCHANGED <<reqVars, seeded, lsn, quit, elapsed>>

-----------------------------------------------------------------------------
(* Specifications *)

BooksGet(p) == BooksGetRLock(p) \/ BooksGetRange(p) \/ BooksGetRUnlock(p) \/ BooksGetEncode(p)

BooksPost(p) ==
    \/ BooksPostDecode(p) \/ BooksPostLock(p) \/ BooksPostLockWait(p) \/ BooksPostStore(p)
    \/ BooksPostUnlock(p) \/ BooksPostCreated(p)

BookGet(p) == BookGetRLock(p) \/ BookGetLookup(p) \/ BookGetRUnlock(p) \/ BookGetReply(p)

BookPut(p) ==
    \/ BookPutDecode(p) \/ BookPutLock(p) \/ BookPutLockWait(p) \/ BookPutStore(p)
    \/ BookPutUnlock(p) \/ BookPutEncode(p)

BookDelete(p) ==
    \/ BookDeleteLock(p) \/ BookDeleteLockWait(p) \/ BookDeleteRemove(p)
    \/ BookDeleteUnlock(p) \/ BookDeleteNoContent(p)

\* the middleware and the end of a request
Gate(p) == Authenticate(p) \/ Finish(p)

\* func handleBooks
HandleBooks(p) == BooksGet(p) \/ BooksPost(p) \/ BooksDefault(p)

\* func handleBook
HandleBook(p) == BookGet(p) \/ BookPut(p) \/ BookDelete(p) \/ BookDefault(p)

Startup == InitializeBooks \/ StartServer \/ ListenOk \/ ListenFail

Shutdown == Signal \/ ReceiveQuit \/ Tick \/ ShutdownBegin \/ ShutdownIdle \/ ShutdownTimeout

Main == Startup \/ Shutdown

\* the process from start to exit, its clients posting a book, reading
\* /book/6 or sending a request without the key
Next ==
    \/ Main
    \/ \E p \in Procs : Gate(p) \/ BooksPost(p) \/ BookGet(p)
    \/ \E p \in Procs : \E in \in LifeInputs : Accept(p, in)

Spec == Init /\ [][Next]_vars

\* the main goroutine is scheduled, the clock advances and Shutdown polls
\* the connections; nothing makes a request handler or a client progress
Fairness ==
    /\ WF_vars(ReceiveQuit) /\ WF_vars(ShutdownBegin) /\ WF_vars(Tick)
    /\ WF_vars(ShutdownIdle) /\ WF_vars(ShutdownTimeout)

SpecLive == Init /\ [][Next]_vars /\ Fairness

\* no signal is delivered: concurrent readers and writers of /book/6 and
\* posts to the collection
NextServe ==
    \/ Startup
    \/ \E p \in Procs : Gate(p) \/ BooksPost(p) \/ BookGet(p) \/ BookPut(p) \/ BookDelete(p)
    \/ \E p \in Procs : \E in \in ServeInputs : Accept(p, in)

SpecServe == Init /\ [][NextServe]_vars

\* no signal is delivered: one client at a time, every input
NextApi ==
    \/ Startup
    \/ Gate(1) \/ HandleBooks(1) \/ HandleBook(1)
    \/ \E in \in Inputs : Accept(1, in)

SpecApi == Init /\ [][NextApi]_vars

\* no signal is delivered: concurrent requests of the five kinds that take
\* the lock
NextMix ==
    \/ Startup
    \/ \E p \in Procs :
          Gate(p) \/ BooksGet(p) \/ BooksPost(p) \/ BookGet(p) \/ BookPut(p) \/ BookDelete(p)
    \/ \E p \in Procs : \E in \in MixInputs : Accept(p, in)

SpecMix == Init /\ [][NextMix]_vars

\* the calls of mux.RLock() and mux.Lock() of the request in slot p, which
\* block while the lock is not granted
LockGrant(p) ==
    \/ BooksGetRLock(p) \/ BookGetRLock(p)
    \/ BooksPostLock(p) \/ BookPutLock(p) \/ BookDeleteLock(p)
    \/ BooksPostLockWait(p) \/ BookPutLockWait(p) \/ BookDeleteLockWait(p)

\* the steps of the request in slot p that wait for nobody
HandlerStep(p) ==
    \/ Authenticate(p)
    \/ BooksGetRange(p) \/ BooksGetRUnlock(p) \/ BooksGetEncode(p)
    \/ BooksPostDecode(p) \/ BooksPostStore(p) \/ BooksPostUnlock(p) \/ BooksPostCreated(p)
    \/ BookGetLookup(p) \/ BookGetRUnlock(p) \/ BookGetReply(p)
    \/ BookPutDecode(p) \/ BookPutStore(p) \/ BookPutUnlock(p) \/ BookPutEncode(p)
    \/ BookDeleteRemove(p) \/ BookDeleteUnlock(p) \/ BookDeleteNoContent(p)

\* the Go scheduler runs every runnable goroutine, and sync.RWMutex grants
\* the lock to a goroutine that could take it again and again (a waiting
\* writer holds back new readers, a mutex in starvation mode is handed to
\* its longest waiter); no client is obliged to send a request
MixFairness == \A p \in Procs : WF_vars(HandlerStep(p)) /\ SF_vars(LockGrant(p))

\* the requests of NextMix in slot 1, each of them running against the
\* readers of the collection and the writers of /book/6 of the other slots
NextFair ==
    \/ Startup
    \/ \E p \in Procs :
          Gate(p) \/ BooksGet(p) \/ BooksPost(p) \/ BookGet(p) \/ BookPut(p) \/ BookDelete(p)
    \/ \E p \in Procs : \E in \in FairInputs(p) : Accept(p, in)

SpecFair == Init /\ [][NextFair]_vars /\ MixFairness

\* no signal is delivered: a client that deletes the seeded books and lists
\* the collection while other clients post
NextList ==
    \/ Startup
    \/ \E p \in Procs : Gate(p) \/ BooksGet(p) \/ BooksPost(p) \/ BookDelete(p)
    \/ \E p \in Procs : \E in \in ListInputs(p) : Accept(p, in)

SpecList == Init /\ [][NextList]_vars

-----------------------------------------------------------------------------
(* Vocabulary of the properties *)

\* the request in slot p has been accepted (its slot is not free)
Accepted(p) == req[p].pc # "idle"

HasKey(p) == req[p].header = ApiKey("secret-key")

OnBooks(p) == req[p].path = <<"/", "b", "o", "o", "k", "s">>

OnBook(p) == Accepted(p) /\ ~OnBooks(p)

Done(p) == req[p].pc = "done"

\* slot p holds the lock
HoldsLock(p) == mux.writer = p \/ p \in mux.readers

\* this step is a step of the request in slot p
StepOf(p) == Accepted(p) /\ ~Done(p) /\ req'[p] # req[p]

\* the JSON object {"id": i, "title": t}
Json(i, t) == [kind |-> "object", fields |-> [id |-> [t |-> "string", s |-> i], title |-> [t |-> "string", s |-> t]]]

-----------------------------------------------------------------------------
(* C1 *)

Unauthorized(p) == Accepted(p) /\ ~HasKey(p)

C1_State ==
    \A p \in Procs : Unauthorized(p) =>
        /\ req[p].pc \in {"authenticate", "done"}
        /\ ~HoldsLock(p)
        /\ req[p].book = ZeroBook /\ req[p].bks = NilSlice
        /\ Done(p) => req[p].status = 401 /\ req[p].resp = TextResp("Unauthorized")

C1_Step ==
    \A p \in Procs : Unauthorized(p) /\ StepOf(p) =>
        /\ books' = books /\ mux' = mux
        /\ req'[p].pc = "done" /\ req'[p].status = 401

\* C1: on both routes and for every method, a request whose X-API-Key is
\* absent or is not "secret-key" is answered 401, never enters the wrapped
\* handler (no lock taken, no body decoded) and its steps leave the store as
\* it was, also when it would otherwise be a valid POST, PUT or DELETE.
C1_UnauthorizedRejected == []C1_State /\ [][C1_Step]_vars

\* an unauthorized POST, PUT and DELETE that would otherwise be valid, answered 401
C1_Witness ==
    \E p \in Procs :
        /\ Done(p) /\ ~HasKey(p) /\ req[p].status = 401
        /\ \/ req[p].method = "POST" /\ OnBooks(p) /\ req[p].body = DuneBody
           \/ req[p].method = "DELETE" /\ OnBook(p) /\ PathId(req[p].path) = <<"1">>

-----------------------------------------------------------------------------
(* C3 *)

\* an authenticated POST /books or PUT /book/{id} whose body does not decode
BadWrite(p) ==
    /\ Accepted(p) /\ HasKey(p)
    /\ req[p].body \in {EmptyBody, SyntaxBody, NumberBody}
    /\ \/ OnBooks(p) /\ req[p].method = "POST"
       \/ OnBook(p) /\ req[p].method = "PUT"

C3_State ==
    \A p \in Procs : BadWrite(p) =>
        /\ req[p].pc \in {"authenticate", "handleBooks", "handleBook", "done"}
        /\ ~HoldsLock(p)
        /\ Done(p) => req[p].status = 400 /\ req[p].resp.kind = "text"

C3_Step == \A p \in Procs : BadWrite(p) /\ StepOf(p) => books' = books /\ mux' = mux

\* C3: an authenticated POST /books or PUT /book/{id} whose body fails to
\* decode is answered 400, never takes the write lock, and its steps leave
\* the store exactly as it was.
C3_MalformedBodyRejected == []C3_State /\ [][C3_Step]_vars

C3_Witness ==
    \E p \in Procs :
        /\ BadWrite(p) /\ Done(p) /\ req[p].status = 400
        /\ req[p].body = NumberBody /\ req[p].method = "PUT"

-----------------------------------------------------------------------------
(* C10 *)

\* an authenticated request with a method the route does not serve
OtherMethod(p) ==
    /\ Accepted(p) /\ HasKey(p)
    /\ \/ OnBooks(p) /\ req[p].method \notin {"GET", "POST"}
       \/ OnBook(p) /\ req[p].method \notin {"GET", "PUT", "DELETE"}

C10_State ==
    \A p \in Procs : OtherMethod(p) =>
        /\ req[p].pc \in {"authenticate", "handleBooks", "handleBook", "done"}
        /\ ~HoldsLock(p)
        /\ Done(p) => req[p].status = 405 /\ req[p].resp = NoResp

C10_Step == \A p \in Procs : OtherMethod(p) /\ StepOf(p) => books' = books /\ mux' = mux

\* C10: an authenticated request with a method other than GET or POST on
\* /books, or other than GET, PUT or DELETE on /book/{id}, is answered 405
\* with an empty body, takes no lock and leaves the store unchanged.
C10_MethodNotAllowed == []C10_State /\ [][C10_Step]_vars

C10_Witness ==
    \E p \in Procs :
        /\ OtherMethod(p) /\ Done(p) /\ req[p].status = 405
        /\ req[p].method = "PUT" /\ OnBooks(p) /\ req[p].body = DuneBody

-----------------------------------------------------------------------------
(* C7 *)

\* no POST, PUT or DELETE has written the store yet
NoWriteYet == \A k \in Keys : lastWrite[k].op \in {"none", "seed"}

\* initializeBooks has returned
SeedingDone == mainPc # "initializeBooks"

SeedJson ==
    {Json(<<"1">>, <<"1984">>), Json(<<"2">>, <<"Brave New World">>),
     Json(<<"3">>, <<"To Kill a Mockingbird">>), Json(<<"4">>, <<"The Great Gatsby">>),
     Json(<<"5">>, <<"Moby Dick">>)}

\* C7: once seeding is done and before any write request has been processed,
\* the store holds exactly the keys "1".."5" with the seeded titles, and an
\* authenticated GET /books answers 200 with exactly those five records,
\* each once.
C7_SeededStore ==
    SeedingDone /\ NoWriteYet =>
        /\ DOMAIN books = {<<"1">>, <<"2">>, <<"3">>, <<"4">>, <<"5">>}
        /\ \A k \in DOMAIN books : Json(k, books[k].Title) \in SeedJson /\ books[k].ID = k
        /\ \A p \in Procs : Done(p) /\ HasKey(p) /\ OnBooks(p) /\ req[p].method = "GET" =>
               /\ req[p].status = 200
               /\ req[p].resp.kind = "array"
               /\ req[p].resp.items = SetToBag(SeedJson)

C7_Witness ==
    /\ SeedingDone /\ NoWriteYet
    /\ \E p \in Procs : Done(p) /\ HasKey(p) /\ OnBooks(p) /\ req[p].method = "GET"

-----------------------------------------------------------------------------
(* Vocabulary of the claims about reads after writes *)

\* an authenticated POST /books with a body that decodes
GoodPost(p) ==
    /\ Accepted(p) /\ HasKey(p) /\ OnBooks(p) /\ req[p].method = "POST"
    /\ req[p].body \in {DuneBody, FarmBody, EmmaBody}

\* an authenticated PUT /book/{id} with a body that decodes
GoodPut(p) ==
    /\ Accepted(p) /\ HasKey(p) /\ OnBook(p) /\ req[p].method = "PUT"
    /\ req[p].body \in {DuneBody, FarmBody, EmmaBody}

AuthDelete(p) == Accepted(p) /\ HasKey(p) /\ OnBook(p) /\ req[p].method = "DELETE"

\* an authenticated GET /book/{id} that has been answered
AnsweredGet(p) == Done(p) /\ HasKey(p) /\ OnBook(p) /\ req[p].method = "GET"

\* the record a well-formed body carries, as JSON
RecordOf(body) ==
    CASE body = DuneBody -> Json(<<"6">>, <<"Dune">>)
      [] body = FarmBody -> Json(<<"1">>, <<"Animal Farm">>)
      [] body = EmmaBody -> Json(<<>>, <<"Emma">>)

\* the id a request path addresses, read off the path sets of the inputs
Addressed(p) == CHOOSE i \in PathIds : req[p].path = <<"/", "b", "o", "o", "k", "/">> \o i

\* the key was present when the write of slot p replaced it
Replaced(p) == req[p].seen.op \in {"seed", "POST", "PUT"}

-----------------------------------------------------------------------------
(* C2 *)

\* the POST of slot p has executed its map assignment
Posted(p) == GoodPost(p) /\ req[p].pc \in {"booksPostUnlock", "booksPostCreated", "done"}

\* no later POST, PUT or DELETE has written the key of p's record
NotOverwritten(p) == lastWrite[req[p].book.ID] = [op |-> "POST", val |-> req[p].book]

\* C2: POST /books requests with pairwise distinct ids that run in parallel
\* all answer 201, and every one that has stored its record, and whose id no
\* later write or delete has touched, has its record in the store under its
\* id: no interleaving loses an update.
C2_NoLostPost ==
    /\ \A p \in Procs : GoodPost(p) /\ Done(p) => req[p].status = 201
    /\ \A p \in Procs : Posted(p) /\ NotOverwritten(p) =>
           /\ req[p].book.ID \in DOMAIN books
           /\ books[req[p].book.ID] = req[p].book
           /\ Json(req[p].book.ID, req[p].book.Title) = RecordOf(req[p].body)

\* two POSTs with distinct ids in flight together, one still holding the
\* lock, both records stored
C2_Witness ==
    \E p, q \in Procs :
        /\ Posted(p) /\ Posted(q) /\ req[p].book.ID # req[q].book.ID
        /\ req[p].pc = "booksPostCreated" /\ req[q].pc = "booksPostUnlock"
        /\ NotOverwritten(p) /\ NotOverwritten(q)

-----------------------------------------------------------------------------
(* C4 *)

C4_State ==
    /\ \A p \in Procs : AuthDelete(p) /\ Done(p) => req[p].status = 204 /\ req[p].resp = NoResp
    /\ \A p \in Procs : AnsweredGet(p) /\ req[p].seen.op = "DELETE" => req[p].status = 404

C4_Step ==
    \A p \in Procs : AuthDelete(p) /\ req[p].pc = "bookDeleteRemove" /\ StepOf(p) =>
        /\ Addressed(p) \notin DOMAIN books'
        /\ Addressed(p) \notin DOMAIN books => books' = books

\* C4: a GET /book/{id} that reads the store when the last write to id was a
\* DELETE answers 404; DELETE answers 204 with an empty body whether or not
\* the id was present; deleting an absent id (a second DELETE) leaves the
\* store unchanged.
C4_DeleteIdempotent == []C4_State /\ [][C4_Step]_vars

\* a second DELETE of the same id answered 204, and a GET after it answered 404
C4_Witness ==
    \E p, q \in Procs :
        /\ AuthDelete(p) /\ Done(p) /\ req[p].seen.op = "DELETE" /\ req[p].status = 204
        /\ AnsweredGet(q) /\ req[q].seen.op = "DELETE" /\ req[q].status = 404

-----------------------------------------------------------------------------
(* C5 *)

C5_State ==
    /\ \A p \in Procs : GoodPost(p) /\ Done(p) => req[p].status = 201 /\ req[p].resp = NoResp
    /\ \A p \in Procs : AnsweredGet(p) /\ req[p].seen.op = "POST" =>
           /\ req[p].status = 200
           /\ req[p].resp = Json(req[p].seen.val.ID, req[p].seen.val.Title)
           /\ req[p].seen.val.ID = Addressed(p)
           /\ \E b \in {DuneBody, FarmBody, EmmaBody} : req[p].resp = RecordOf(b)

C5_Step ==
    \A p \in Procs : GoodPost(p) /\ req[p].pc = "booksPostStore" /\ StepOf(p) =>
        \E k \in DOMAIN books' : Json(k, books'[k].Title) = RecordOf(req[p].body)
                                   /\ books'[k].ID = k

\* C5: a GET /book/{id} that reads the store when the last write to id was
\* the POST of a record r answers 200 with exactly r (same id and title); a
\* well-formed POST answers 201 with an empty body, also when r.id was
\* already present, and then the previous record is replaced.
C5_PostThenGet == []C5_State /\ [][C5_Step]_vars

\* a POST that replaced an existing record, answered 201, and a GET that
\* read the posted record
C5_Witness ==
    \E p, q \in Procs :
        /\ GoodPost(p) /\ Done(p) /\ Replaced(p) /\ req[p].seen.val # req[p].book
        /\ AnsweredGet(q) /\ req[q].seen.op = "POST" /\ req[q].resp = DuneBody

-----------------------------------------------------------------------------
(* C6 *)

C6_State ==
    /\ \A p \in Procs : GoodPut(p) /\ Done(p) =>
           req[p].status = 200 /\ req[p].resp = RecordOf(req[p].body)
    /\ \A p \in Procs : AnsweredGet(p) /\ req[p].seen.op = "PUT" =>
           /\ req[p].status = 200
           /\ req[p].resp = Json(req[p].seen.val.ID, req[p].seen.val.Title)
           /\ \E b \in {DuneBody, FarmBody, EmmaBody} : req[p].resp = RecordOf(b)

C6_Step ==
    \A p \in Procs : GoodPut(p) /\ req[p].pc = "bookPutStore" /\ StepOf(p) =>
        /\ Addressed(p) \in DOMAIN books'
        /\ Json(books'[Addressed(p)].ID, books'[Addressed(p)].Title) = RecordOf(req[p].body)

\* C6: a well-formed authenticated PUT /book/{id} answers 200 whether or not
\* id is present, creating the entry when absent and replacing it when
\* present, and a GET /book/{id} that reads the store when the last write to
\* id was that PUT answers 200 with exactly the record that was PUT.
C6_PutUpserts == []C6_State /\ [][C6_Step]_vars

\* a PUT that created an absent id, answered 200, and a GET that read it
C6_Witness ==
    \E p, q \in Procs :
        /\ GoodPut(p) /\ Done(p) /\ ~Replaced(p) /\ req[p].status = 200
        /\ AnsweredGet(q) /\ req[q].seen.op = "PUT" /\ req[q].status = 200

\* a PUT that replaced a present id
C6_WitnessReplace == \E p \in Procs : GoodPut(p) /\ Done(p) /\ Replaced(p)

-----------------------------------------------------------------------------
(* C8 *)

\* the PUT of slot p writes its response in this step
PutResponds(p) == GoodPut(p) /\ req[p].pc = "bookPutEncode" /\ StepOf(p)

\* C8 as claimed: the response of a successful PUT is the JSON of the record
\* stored under id at the moment the response is produced, whatever the
\* other requests on that id do.
C8_PutAnswersStored ==
    [][\A p \in Procs : PutResponds(p) =>
          /\ Addressed(p) \in DOMAIN books
          /\ req'[p].resp = Json(books[Addressed(p)].ID, books[Addressed(p)].Title)]_vars

\* C8 amended: a successful PUT answers 200 with the JSON of the record it
\* decoded from its own body, which is the record stored under id when it
\* released the write lock.
C8_PutAnswersOwnRecord ==
    [][\A p \in Procs :
          /\ PutResponds(p) =>
                req'[p].status = 200 /\ req'[p].resp = RecordOf(req[p].body)
          /\ GoodPut(p) /\ req[p].pc = "bookPutUnlock" /\ StepOf(p) =>
                /\ Addressed(p) \in DOMAIN books'
                /\ Json(books'[Addressed(p)].ID, books'[Addressed(p)].Title) = RecordOf(req[p].body)]_vars

\* a PUT about to respond after another request changed the entry of its id
C8_Witness ==
    \E p \in Procs :
        /\ GoodPut(p) /\ req[p].pc = "bookPutEncode"
        /\ \/ Addressed(p) \notin DOMAIN books
           \/ Json(books[Addressed(p)].ID, books[Addressed(p)].Title) # RecordOf(req[p].body)

-----------------------------------------------------------------------------
(* C9 *)

\* server.Shutdown has been called
ShutdownBegun == mainPc \in {"shutdownWait", "returned", "fatal"}

C9_State ==
    /\ elapsed \in 0..5
    /\ ShutdownBegun => lsn = "closed"
    /\ mainPc = "returned" => exit = "exit0" /\ \A p \in Procs : req[p].pc \in {"idle", "done"}
    /\ mainPc = "fatal" => exit = "exit1" /\ elapsed = 5 /\ \E p \in Procs : req[p].pc \notin {"idle", "done"}

C9_Step ==
    /\ ShutdownBegun => \A p \in Procs : req[p].pc = "idle" => req'[p].pc = "idle"
    /\ exit # "running" => req' = req /\ books' = books

\* C9: after a signal is delivered the process always eventually terminates;
\* once Shutdown has been called the listener is closed and no request is
\* accepted; requests in flight keep running for at most the 5 units of the
\* grace period; when it expires with a request in flight the process exits
\* anyway and the request is abandoned.
C9_GracefulShutdown == []C9_State /\ [][C9_Step]_vars /\ ((quit > 0) ~> (exit # "running"))

\* the grace period expired with a request in flight, which was abandoned
C9_Witness == mainPc = "fatal" /\ exit = "exit1" /\ \E p \in Procs : req[p].pc = "booksPostStore"

-----------------------------------------------------------------------------
(* C11 *)

\* p is between the return of mux.Lock() and mux.Unlock()
WriteSection(p) ==
    req[p].pc \in {"booksPostStore", "booksPostUnlock", "bookPutStore", "bookPutUnlock",
                   "bookDeleteRemove", "bookDeleteUnlock"}

\* p is between the return of mux.RLock() and mux.RUnlock()
ReadSection(p) ==
    req[p].pc \in {"booksGetRange", "booksGetRUnlock", "bookGetLookup", "bookGetRUnlock"}

C11_State ==
    /\ \A p \in Procs : WriteSection(p) =>
          /\ mux.writer = p /\ mux.readers = {}
          /\ \A q \in Procs \ {p} : ~WriteSection(q) /\ ~ReadSection(q)
    /\ \A p \in Procs : ReadSection(p) => p \in mux.readers /\ mux.writer = 0
    /\ \A p \in Procs : HoldsLock(p) => WriteSection(p) \/ ReadSection(p)

C11_Step ==
    /\ SeedingDone /\ books' # books =>
          \E p \in Procs : mux.writer = p /\ mux.readers = {} /\ StepOf(p)
    /\ \A p \in Procs :
          StepOf(p) /\ (req'[p].bks # req[p].bks \/ req'[p].seen # req[p].seen) =>
              mux.writer = p \/ (p \in mux.readers /\ mux.writer = 0)

\* C11: while a handler holds the write lock no other handler holds the
\* write lock or the read lock; readers may hold the read lock together; a
\* handler's step that writes the map is taken by the holder of the write
\* lock, and a step that reads the map by a holder of the lock.
C11_MutualExclusion == []C11_State /\ [][C11_Step]_vars

\* GET /books and GET /book/6 are inside the map at the same time, both
\* holding the read lock
C11_Witness ==
    \E p, q \in Procs :
        /\ req[p].pc = "booksGetRange" /\ req[q].pc = "bookGetLookup"
        /\ {p, q} \subseteq mux.readers

-----------------------------------------------------------------------------
(* C12 *)

\* the store that results from running the writes one at a time in the order
\* in which they held the lock: the last write of every key
SerialStore ==
    [k \in {x \in Keys : lastWrite[x].op \in {"seed", "POST", "PUT"}} |-> lastWrite[k].val]

\* the answer the request of slot p gets when the requests run one at a
\* time in the order in which they held the lock
SerialStatus(p) ==
    CASE req[p].method = "POST" -> 201
      [] req[p].method = "PUT" -> 200
      [] req[p].method = "DELETE" -> 204
      [] req[p].method = "GET" ->
            IF req[p].seen.op \in {"seed", "POST", "PUT"} THEN 200 ELSE 404

SerialBody(p) ==
    CASE req[p].method = "POST" -> NoResp
      [] req[p].method = "PUT" -> RecordOf(req[p].body)
      [] req[p].method = "DELETE" -> NoResp
      [] req[p].method = "GET" ->
            IF req[p].seen.op \in {"seed", "POST", "PUT"}
            THEN Json(req[p].seen.val.ID, req[p].seen.val.Title)
            ELSE TextResp("404 page not found")

\* the records a request or the seeding wrote
WrittenRecords ==
    {Json(SeedBooks[i].ID, SeedBooks[i].Title) : i \in 1..Len(SeedBooks)}
        \cup {RecordOf(b) : b \in {DuneBody, FarmBody, EmmaBody}}

\* C12: in every state the store equals the store obtained by running the
\* writes one at a time in the order in which they held the lock, so the
\* entry of an id is the effect of the writer that took the lock last and
\* always a record some request or the seeding wrote; every answered request
\* on /book/{id} or POST /books has the answer of that serial run, a GET
\* /book/{id} answering 404 or the record stored under id while it held the
\* read lock.
C12_Linearizable ==
    /\ books = SerialStore
    /\ \A k \in DOMAIN books : Json(books[k].ID, books[k].Title) \in WrittenRecords
    /\ \A p \in Procs : Done(p) /\ HasKey(p) /\ (OnBook(p) \/ req[p].method = "POST") =>
          /\ req[p].status = SerialStatus(p)
          /\ req[p].resp = SerialBody(p)

\* a PUT /book/6 took the lock after a POST of id "6" that has not answered
\* yet, and the entry is the PUT's record
C12_Witness ==
    \E p, q \in Procs :
        /\ req[q].pc = "booksPostCreated" /\ req[q].book.ID = <<"6">>
        /\ req[p].pc = "bookPutUnlock" /\ req[p].id = <<"6">>
        /\ req[p].seen = [op |-> "POST", val |-> req[q].book]
        /\ books[<<"6">>] = req[p].book /\ req[p].book # req[q].book

-----------------------------------------------------------------------------
(* C13 *)

\* slot p holds the read lock, the write lock or the writers' mutex
Holds(p) == HoldsLock(p) \/ mux.w = p

\* the handler of slot p has not been entered or has returned
Outside(p) == req[p].pc \in {"idle", "authenticate", "done"}

C13_State ==
    /\ \A p \in Procs : Outside(p) => ~Holds(p)
    /\ mux.w \in Procs \cup {0} /\ mux.writer \in {0, mux.w} /\ mux.readers \subseteq Procs

\* a step of p that changes the lock acquires it while p holds nothing,
\* completes the acquisition p has begun, or releases all that p holds
C13_Step ==
    \A p \in Procs : StepOf(p) /\ mux' # mux =>
        \/ ~Holds(p) /\ Holds(p)'
        \/ mux.w = p /\ mux.writer = 0 /\ mux' = [mux EXCEPT !.writer = p]
        \/ Holds(p) /\ ~Holds(p)' /\ mux' = [w |-> IF mux.w = p THEN 0 ELSE mux.w,
                                            writer |-> IF mux.writer = p THEN 0 ELSE mux.writer,
                                            readers |-> mux.readers \ {p}]

\* C13: a request that is outside its handler holds no lock, so every
\* acquisition is released before the handler returns; no handler acquires a
\* lock while it holds one; and, with handlers scheduled and the lock granted
\* fairly, every accepted request is eventually answered.
C13_NoDeadlock ==
    /\ []C13_State
    /\ [][C13_Step]_vars
    /\ \A p \in Procs : (Accepted(p) /\ ~Done(p)) ~> Done(p)

\* a PUT has announced itself and waits for a GET /books, which is inside
\* the map, to leave
C13_Witness ==
    \E p, q \in Procs :
        /\ req[p].pc = "bookPutLockWait" /\ mux.w = p
        /\ q \in mux.readers /\ req[q].pc = "booksGetRange"

-----------------------------------------------------------------------------
(* C14 *)

\* the next statement of slot p reads the request body
Decoding(p) ==
    \/ req[p].pc = "handleBooks" /\ req[p].method = "POST"
    \/ req[p].pc = "handleBook" /\ req[p].method = "PUT"

\* the next statement of slot p writes the response, or p has written it
Responding(p) ==
    req[p].pc \in {"booksGetEncode", "booksPostCreated", "bookGetReply", "bookPutEncode",
                   "bookDeleteNoContent", "done"}

C14_State == \A p \in Procs : Decoding(p) \/ Responding(p) => ~Holds(p)

\* a step that sets the decoded record or the response is taken, and ends,
\* without the lock
C14_Step ==
    \A p \in Procs :
        /\ StepOf(p) /\ (req'[p].status # req[p].status \/ req'[p].resp # req[p].resp) =>
              ~Holds(p) /\ ~Holds(p)'
        /\ StepOf(p) /\ req[p].method \in {"POST", "PUT"} /\ req'[p].book # req[p].book =>
              ~Holds(p) /\ ~Holds(p)'

\* C14: a handler that is about to decode the request body, or to write or
\* serialize its response, holds neither the read lock nor the write lock,
\* and the steps that decode or respond are taken without it.
C14_LockOnlyAroundMap == []C14_State /\ [][C14_Step]_vars

\* a GET /books has left the map and not yet written its list while a PUT
\* holds the write lock
C14_Witness ==
    \E p, q \in Procs :
        /\ req[p].pc = "booksGetEncode"
        /\ req[q].pc = "bookPutStore" /\ mux.writer = q

-----------------------------------------------------------------------------
(* C15 *)

\* an authenticated GET /books
ListRequest(p) == Accepted(p) /\ HasKey(p) /\ OnBooks(p) /\ req[p].method = "GET"

\* the JSON objects of the values of the store m, one for every key
ListOf(m) ==
    [o \in {Json(m[k].ID, m[k].Title) : k \in DOMAIN m} |->
        Cardinality({k \in DOMAIN m : Json(m[k].ID, m[k].Title) = o})]

\* C15: an answered GET /books carries status 200 and a JSON array, never
\* null, whose elements are the values the store held at the instant of its
\* range over the map, one element for every key; at that instant the
\* request held the read lock and no writer was inside, and until the read
\* lock is released the store still is that snapshot.
C15_AtomicSnapshot ==
    \A p \in Procs : ListRequest(p) =>
        /\ req[p].pc = "booksGetRUnlock" =>
              p \in mux.readers /\ mux.writer = 0 /\ req[p].snap = books
        /\ Done(p) =>
              /\ req[p].status = 200
              /\ req[p].resp.kind = "array"
              /\ req[p].resp.items = ListOf(req[p].snap)
              /\ req[p].snap = <<>> => req[p].resp = [kind |-> "array", items |-> EmptyBag]

\* a GET /books that listed the empty store is answered [] although a POST,
\* running at the same time, has stored a book since
C15_Witness ==
    \E p, q \in Procs :
        /\ ListRequest(p) /\ Done(p)
        /\ req[p].snap = <<>> /\ req[p].resp = [kind |-> "array", items |-> EmptyBag]
        /\ req[q].pc = "booksPostUnlock" /\ books # req[p].snap

-----------------------------------------------------------------------------
(* C16 *)

\* the id field of the body of slot p, the empty string when it has none
BodyId(p) == RecordOf(req[p].body).fields.id.s

\* this step leaves the entry of key k as it is, present or absent
SameEntry(k) ==
    /\ k \in DOMAIN books <=> k \in DOMAIN books'
    /\ k \in DOMAIN books => books'[k] = books[k]

\* an entry that the seeding or a POST wrote last has its key as id
C16_State ==
    \A k \in DOMAIN books : lastWrite[k].op \in {"seed", "POST"} => books[k].ID = k

\* the map assignment of a PUT
C16_Step ==
    \A p \in Procs : GoodPut(p) /\ StepOf(p) /\ req[p].pc = "bookPutStore" =>
        /\ Addressed(p) \in DOMAIN books'
        /\ Json(books'[Addressed(p)].ID, books'[Addressed(p)].Title) = RecordOf(req[p].body)
        /\ BodyId(p) # Addressed(p) =>
              /\ books'[Addressed(p)].ID # Addressed(p)
              /\ SameEntry(BodyId(p))

\* C16: every entry last written by the seeding or by a POST has a key equal
\* to its record's id, so key = record.id everywhere as long as no PUT has
\* stored; a PUT stores its body under the path id whatever the body's id is,
\* and when the two differ the entry at the path id carries the body's id and
\* the entry at the body's id is left as it was.
C16_KeyAndId == []C16_State /\ [][C16_Step]_vars

\* after PUT /book/6 with a body of id "1", GET /books has returned two
\* different records whose id field is "1"
C16_Witness ==
    \E p \in Procs :
        /\ ListRequest(p) /\ Done(p)
        /\ lastWrite[<<"6">>].op = "PUT" /\ books[<<"6">>].ID = <<"1">>
        /\ \E o1, o2 \in DOMAIN req[p].resp.items :
              o1 # o2 /\ o1.fields.id = o2.fields.id /\ o1.fields.id.s = <<"1">>

-----------------------------------------------------------------------------
(* C17 *)

\* the only key a step of the request in slot p may change
Target(p) ==
    IF GoodPost(p) /\ req[p].pc = "booksPostStore" THEN {BodyId(p)}
    ELSE IF (GoodPut(p) /\ req[p].pc = "bookPutStore")
            \/ (AuthDelete(p) /\ req[p].pc = "bookDeleteRemove") THEN {Addressed(p)}
    ELSE {}

\* C17: the map assignment of a POST changes at most the entry at the body's
\* id, the map assignment of a PUT and the delete of a DELETE at most the
\* entry at the path id, and every other key keeps its record or stays
\* absent; no other step of a request, and no step at all of a GET /books or
\* a GET /book/{id}, changes the store.
C17_Frame ==
    [][\A p \in Procs : StepOf(p) =>
          /\ \A k \in Keys \ Target(p) : SameEntry(k)
          /\ DOMAIN books' \subseteq Keys
          /\ req[p].method = "GET" => books' = books]_vars

\* a PUT /book/{id} has replaced the record at the path id and the five
\* seeded books other than that id are as they were seeded
C17_Witness ==
    \E p \in Procs :
        /\ GoodPut(p) /\ req[p].pc = "bookPutUnlock"
        /\ Replaced(p) /\ req[p].seen.val # req[p].book
        /\ books[Addressed(p)] = req[p].book
        /\ \A i \in 1..Len(SeedBooks) :
              SeedBooks[i].ID # Addressed(p) => books[SeedBooks[i].ID] = SeedBooks[i]

-----------------------------------------------------------------------------
(* C18 *)

\* an authenticated request to exactly /book/
OnEmptyId(p) ==
    Accepted(p) /\ HasKey(p) /\ req[p].path = <<"/", "b", "o", "o", "k", "/">>

\* an authenticated POST /books whose well-formed body has no id field
PostWithoutId(p) == GoodPost(p) /\ req[p].body = EmmaBody

\* something is stored under the key ""
EmptyIdStored == lastWrite[<<>>].op \in {"seed", "POST", "PUT"}

C18_State ==
    /\ EmptyIdStored <=> <<>> \in DOMAIN books
    /\ \A p \in Procs : OnEmptyId(p) /\ Done(p) =>
          /\ req[p].method = "GET" /\ req[p].seen.op \in {"none", "DELETE"} =>
                req[p].status = 404
          /\ req[p].method = "GET" /\ req[p].seen.op \in {"POST", "PUT"} =>
                /\ req[p].status = 200
                /\ req[p].resp = Json(req[p].seen.val.ID, req[p].seen.val.Title)
          /\ req[p].method = "PUT" /\ req[p].body \in {DuneBody, FarmBody, EmmaBody} =>
                req[p].status = 200
          /\ req[p].method = "DELETE" => req[p].status = 204
    /\ \A p \in Procs : PostWithoutId(p) /\ Done(p) => req[p].status = 201

C18_Step ==
    \A p \in Procs : StepOf(p) =>
        /\ OnEmptyId(p) /\ req[p].pc = "bookGetLookup" =>
              /\ req'[p].seen = lastWrite[<<>>]
              /\ req'[p].ok <=> <<>> \in DOMAIN books
        /\ OnEmptyId(p) /\ GoodPut(p) /\ req[p].pc = "bookPutStore" =>
              /\ <<>> \in DOMAIN books'
              /\ Json(books'[<<>>].ID, books'[<<>>].Title) = RecordOf(req[p].body)
              /\ lastWrite'[<<>>].op = "PUT"
        /\ OnEmptyId(p) /\ req[p].method = "DELETE" /\ req[p].pc = "bookDeleteRemove" =>
              <<>> \notin DOMAIN books' /\ lastWrite'[<<>>].op = "DELETE"
        /\ PostWithoutId(p) /\ req[p].pc = "booksPostStore" =>
              /\ <<>> \in DOMAIN books'
              /\ Json(books'[<<>>].ID, books'[<<>>].Title) = Json(<<>>, <<"Emma">>)
              /\ lastWrite'[<<>>].op = "POST"

\* C18: requests to exactly /book/ work on the key "": GET looks that key
\* up, answering 404 while nothing is stored there and the stored record
\* otherwise, PUT stores its body there, DELETE removes it; a POST /books
\* whose body has no id field answers 201 and stores its record under the
\* same key "", so both routes read and overwrite one entry.
C18_EmptyId == []C18_State /\ [][C18_Step]_vars

\* a GET of exactly /book/ has returned the record that a POST without an id
\* field stored
C18_Witness ==
    \E p \in Procs :
        /\ OnEmptyId(p) /\ Done(p) /\ req[p].method = "GET"
        /\ req[p].seen.op = "POST" /\ req[p].status = 200
        /\ req[p].resp = Json(<<>>, <<"Emma">>)

-----------------------------------------------------------------------------
(* C19 *)

\* the keys of the five seeded books
SeedKeys == {<<"1">>, <<"2">>, <<"3">>, <<"4">>, <<"5">>}

\* the store m holds the seeded record of every seeded key that no request
\* has written or deleted
HoldsSeeds(m) ==
    \A k \in SeedKeys : lastWrite[k].op = "seed" =>
        k \in DOMAIN m /\ Json(m[k].ID, m[k].Title) \in SeedJson

C19_State ==
    /\ seeded \in 0..5
    /\ seeded < 5 =>
          /\ lsn = "none"
          /\ \A p \in Procs : req[p].pc = "idle"
          /\ mux = [w |-> 0, writer |-> 0, readers |-> {}]
    /\ (\E p \in Procs : Accepted(p)) =>
          /\ \A k \in SeedKeys : lastWrite[k].op # "none"
          /\ HoldsSeeds(books)
    /\ \A p \in Procs : ListRequest(p) /\ req[p].pc \in {"booksGetRUnlock", "booksGetEncode", "done"} =>
          \A k \in SeedKeys : k \in DOMAIN req[p].snap \/ lastWrite[k].op # "seed"

\* an assignment of the seeding is executed without the lock, before the
\* listener exists and while no request is being handled
C19_Step ==
    seeded' # seeded =>
        /\ seeded' = seeded + 1
        /\ lsn = "none" /\ lsn' = "none"
        /\ mux' = mux /\ req' = req
        /\ \A p \in Procs : req[p].pc = "idle"

\* C19: while any of the five seeding assignments is outstanding the
\* listener has not been started and no request is being handled; the
\* seeding never touches the lock; whenever a request is in the server all
\* five seeded keys have been written, the store holds every seeded record
\* that no request has replaced or deleted, and a GET /books has listed all of
\* them.
C19_SeedBeforeServe == []C19_State /\ [][C19_Step]_vars

\* a GET /books has listed the five seeded books while a PUT of another
\* client is inside the write lock
C19_Witness ==
    \E p, q \in Procs :
        /\ ListRequest(p) /\ Done(p) /\ SeedJson \subseteq DOMAIN req[p].resp.items
        /\ req[q].pc = "bookPutStore" /\ mux.writer = q

====
